---------------------------- MODULE Spec2Model ----------------------------
(***************************************************************************)
(* johnny - generic dep(p)endencies tracker (adfinis/johnny).              *)
(*                                                                         *)
(* A model of src/johnny/__init__.py: the version model                    *)
(* (try_parse_versions), the merge engine (update), option resolution      *)
(* (read_config) and the run driven by cli/get_vers: the primary phase     *)
(* (get_primary), the secondary cascade (get_secondary, run_secondary,     *)
(* get_secondary_source), the providers with their fetches behind the      *)
(* semaphore fetch_sem, and the exit status.                               *)
(*                                                                         *)
(* Modelling conventions                                                   *)
(*  - A raw version string is a sequence of one-character strings.         *)
(*  - A Version (packaging.version.Version built from a base_version) is   *)
(*    the tuple of its release numbers as written: <<1, 0>> is "1.0" and   *)
(*    <<1, 0, 0>> is "1.0.0".  Both compare equal, and print differently.  *)
(*  - A dict is a function; its domain is the key set.  The packages of a  *)
(*    configuration are listed in the order p1, p2, ... of the file.       *)
(*  - A response body is the list of raw version strings the provider      *)
(*    extracts from it, or FAIL when the request or its decoding raises.   *)
(***************************************************************************)
EXTENDS Integers, Sequences, FiniteSets, TLC

VARIABLES
    pc,         \* position of the single control flow (cli -> get_vers -> ...)
    kwargs,     \* cli: the options, before and after read_config
    c,          \* cli: the loaded configuration (packages, and johnny_config)
    jc,         \* cli: the settings block read from c, EmptyMap before
    vers,       \* get_vers: the ResolutionMap
    asked,      \* get_vers: the AskedSet
    left,       \* get_vers: the LeftSet (names of the dict `left`)
    inv,        \* the provider invocations of the batch being awaited
    merged,     \* get_primary: invocations of `done` already folded
    pass,       \* get_secondary: 0 none, 1 first run_secondary, 2 second
    todo,       \* run_secondary: providers of the pass not yet invoked
    fetch_sem,  \* value of asyncio.Semaphore fetch_sem
    closed,     \* number of times asession.close() ran
    failure,    \* the exception that is propagating, or "none"
    exitcode,   \* process exit status, -1 while running
    printed,    \* what cli printed on stdout, or NotPrinted
    log,        \* history: provider invocations in the order they started
    offered,    \* history: versions offered so far to update, per package
    b12,        \* merge check: update(update(M, B1), B2)
    b21,        \* merge check: update(update(M, B2), B1)
    pvers,      \* history: the ResolutionMap get_primary returned
    raw,        \* version check: the list given to try_parse_versions
    parsed,     \* version check: what try_parse_versions returned
    argv,       \* history: the options as click passed them to cli
    order       \* cli: the keys of the dict c, in the order of the file

vars == <<pc, kwargs, c, jc, vers, asked, left, inv, merged, pass, todo,
          fetch_sem, closed, failure, exitcode, printed, log, offered,
          b12, b21, pvers, raw, parsed, argv, order>>

-----------------------------------------------------------------------------
(* Small helpers on dicts and sequences *)

EmptyMap == <<>>

Restrict(m, S) == [k \in S |-> m[k]]

Get(m, k, dflt) == IF k \in DOMAIN m THEN m[k] ELSE dflt

Last(s) == s[Len(s)]

RECURSIVE SeqToSet(_)
SeqToSet(s) == IF s = <<>> THEN {} ELSE {Head(s)} \cup SeqToSet(Tail(s))

RECURSIVE FilterSeq(_, _)
FilterSeq(s, S) ==
    IF s = <<>> THEN <<>>
    ELSE IF Head(s) \in S THEN <<Head(s)>> \o FilterSeq(Tail(s), S)
    ELSE FilterSeq(Tail(s), S)

\* the orders in which iterating a set can give its elements
SetOrders(S) ==
    {f \in [1..Cardinality(S) -> S] : \A i, j \in DOMAIN f : i /= j => f[i] /= f[j]}

-----------------------------------------------------------------------------
(* Version model: packaging.version as used by try_parse_versions *)

Digits == <<"0", "1", "2", "3", "4", "5", "6", "7", "8", "9">>

IsDigit(ch) == \E d \in 1..10 : Digits[d] = ch

DigitVal(ch) == (CHOOSE d \in 1..10 : Digits[d] = ch) - 1

Separators == {"-", "_", "."}

\* ver.strip("v"): every leading and every trailing "v" is removed
RECURSIVE LStripV(_)
LStripV(s) == IF s /= <<>> /\ Head(s) = "v" THEN LStripV(Tail(s)) ELSE s

RECURSIVE RStripV(_)
RStripV(s) ==
    IF s /= <<>> /\ s[Len(s)] = "v" THEN RStripV(SubSeq(s, 1, Len(s) - 1)) ELSE s

strip_v(s) == RStripV(LStripV(s))

\* index just after the run of digits that starts at i (i when there is none)
RECURSIVE ScanDigits(_, _)
ScanDigits(s, i) ==
    IF i <= Len(s) /\ IsDigit(s[i]) THEN ScanDigits(s, i + 1) ELSE i

\* [0-9]+(?:\.[0-9]+)* from i, greedy: the index after it, 0 when no match
RECURSIVE ReleaseEnd(_, _)
ReleaseEnd(s, i) ==
    LET j == ScanDigits(s, i) IN
    IF j = i THEN 0
    ELSE IF j <= Len(s) /\ s[j] = "." /\ ScanDigits(s, j + 1) > j + 1
         THEN ReleaseEnd(s, j + 1)
         ELSE j

\* int() of the digits s[i..j-1]
RECURSIVE DigitsToInt(_, _, _)
DigitsToInt(s, i, j) ==
    IF j <= i THEN 0 ELSE DigitsToInt(s, i, j - 1) * 10 + DigitVal(s[j - 1])

\* the release numbers of s[i..e-1], a match of the release pattern
RECURSIVE ReleaseInts(_, _, _)
ReleaseInts(s, i, e) ==
    LET j == ScanDigits(s, i) IN
    IF j >= e THEN <<DigitsToInt(s, i, j)>>
    ELSE <<DigitsToInt(s, i, j)>> \o ReleaseInts(s, j + 1, e)

StartsWith(s, i, w) ==
    /\ i + Len(w) - 1 <= Len(s)
    /\ \A n \in 1..Len(w) : s[i + n - 1] = w[n]

\* The rest of VERSION_PATTERN as sets of positions a match can reach, so
\* that the regular expression's backtracking is covered.
OptSep(s, P) == P \cup {i + 1 : i \in {x \in P : x <= Len(s) /\ s[x] \in Separators}}

Words(s, P, W) == UNION {{i + Len(w) : i \in {x \in P : StartsWith(s, x, w)}} : w \in W}

OptDigits(s, P) == UNION {i..ScanDigits(s, i) : i \in P}

Digits1(s, P) == UNION {(i + 1)..ScanDigits(s, i) : i \in P}

PreWords == {<<"a">>, <<"b">>, <<"c">>, <<"r", "c">>,
             <<"a", "l", "p", "h", "a">>, <<"b", "e", "t", "a">>,
             <<"p", "r", "e">>, <<"p", "r", "e", "v", "i", "e", "w">>}

PostWords == {<<"p", "o", "s", "t">>, <<"r", "e", "v">>, <<"r">>}

DevWords == {<<"d", "e", "v">>}

PreTail(s, P) == P \cup OptDigits(s, OptSep(s, Words(s, OptSep(s, P), PreWords)))

PostTail(s, P) ==
    P \cup Digits1(s, Words(s, P, {<<"-">>}))
      \cup OptDigits(s, OptSep(s, Words(s, OptSep(s, P), PostWords)))

DevTail(s, P) == P \cup OptDigits(s, OptSep(s, Words(s, OptSep(s, P), DevWords)))

\* version.parse(ver) is a Version (not a LegacyVersion): VERSION_PATTERN
\* matches the whole string.  Epochs ("1!"), local versions ("+x"), upper
\* case and white space are outside the alphabet of the modelled inputs.
IsVersion(s) ==
    LET i == IF s /= <<>> /\ s[1] = "v" THEN 2 ELSE 1
        e == ReleaseEnd(s, i)
    IN  /\ e /= 0
        /\ (Len(s) + 1) \in DevTail(s, PostTail(s, PreTail(s, {e})))

\* version.parse(version.parse(ver).base_version): the release numbers
base_version(s) ==
    LET i == IF s /= <<>> /\ s[1] = "v" THEN 2 ELSE 1
    IN  ReleaseInts(s, i, ReleaseEnd(s, i))

\* Version._key for a base version: the release without its trailing zeros
RECURSIVE StripZeros(_)
StripZeros(r) ==
    IF r /= <<>> /\ r[Len(r)] = 0 THEN StripZeros(SubSeq(r, 1, Len(r) - 1)) ELSE r

\* Python's tuple comparison a < b
RECURSIVE TupleLT(_, _)
TupleLT(a, b) ==
    IF b = <<>> THEN FALSE
    ELSE IF a = <<>> THEN TRUE
    ELSE IF Head(a) /= Head(b) THEN Head(a) < Head(b)
    ELSE TupleLT(Tail(a), Tail(b))

VerKey(v) == StripZeros(v)

\* Version.__gt__, __lt__, __eq__
VerGT(a, b) == TupleLT(VerKey(b), VerKey(a))

VerLT(a, b) == TupleLT(VerKey(a), VerKey(b))

VerEQ(a, b) == VerKey(a) = VerKey(b)

\* sorted(res): stable, ascending
RECURSIVE SortedInsert(_, _)
SortedInsert(s, v) ==
    IF s = <<>> THEN <<v>>
    ELSE IF VerLT(v, Last(s)) THEN SortedInsert(SubSeq(s, 1, Len(s) - 1), v) \o <<Last(s)>>
    ELSE s \o <<v>>

RECURSIVE SortVersions(_)
SortVersions(s) ==
    IF s = <<>> THEN <<>>
    ELSE SortedInsert(SortVersions(SubSeq(s, 1, Len(s) - 1)), Last(s))

RECURSIVE ParseAll(_)
ParseAll(versions) ==
    IF versions = <<>> THEN <<>>
    ELSE LET ver == strip_v(Head(versions)) IN
         (IF IsVersion(ver) THEN <<base_version(ver)>> ELSE <<>>)
            \o ParseAll(Tail(versions))

try_parse_versions(versions) == SortVersions(ParseAll(versions))

-----------------------------------------------------------------------------
(* Merge engine *)

update_overwrite(old, new) ==
    [k \in DOMAIN old \cup DOMAIN new |->
        IF k \in DOMAIN new THEN new[k] ELSE old[k]]

update_lower(old, new) ==
    [k \in DOMAIN old \cup DOMAIN new |->
        IF k \notin DOMAIN old THEN new[k]
        ELSE IF k \in DOMAIN new /\ VerLT(new[k], old[k]) THEN new[k]
        ELSE old[k]]

update(old, new) ==
    [k \in DOMAIN old \cup DOMAIN new |->
        IF k \notin DOMAIN old THEN new[k]
        ELSE IF k \in DOMAIN new /\ VerGT(new[k], old[k]) THEN new[k]
        ELSE old[k]]

-----------------------------------------------------------------------------
(* Bounds of the model *)

\* The ceiling of fetch_sem.  The program sets parallelism = 100; the model
\* scales it to the size of its batches so that the gate is contended.
parallelism == 2

-----------------------------------------------------------------------------
(* Configuration, options, registry *)

NoValue == "None"

OptNames == {"github_token", "gitlab_token", "primary", "secondary",
             "trust_primary", "trust_secondary", "print_names", "quiet"}

defaults == [primary |-> "True", secondary |-> "True", trust_primary |-> "True",
             trust_secondary |-> "True", print_names |-> "False", quiet |-> "False"]

sources_list == <<"github", "gitlab", "aur", "arch">>

sources == SeqToSet(sources_list) \cup {"github_tags", "gitlab_tags", "git"}

\* the order in which the modelled files write their package tables (the
\* sets of configurations are closed under renaming the packages, so another
\* order of p1..p3 is this one with the names exchanged; the package whose
\* name is the empty string is the only package of its file)
PkgOrder == <<"p1", "p2", "p3", "">>

\* toml.load keeps the order of the tables of the file: the orders of the
\* keys S, the settings table written before, between or after the packages
FileOrders(S) ==
    LET pk == FilterSeq(PkgOrder, S) IN
    IF "johnny_config" \in S
    THEN {SubSeq(pk, 1, i) \o <<"johnny_config">> \o SubSeq(pk, i + 1, Len(pk)) :
            i \in 0..Len(pk)}
    ELSE {pk}

\* package records the configurations are built from (absent keys are absent)
PkgTemplates ==
    { EmptyMap,
      [primary |-> "github", github |-> "o/r"],
      [primary |-> "aur"],
      [primary |-> "github_tags", github |-> "o/r", gitlab |-> "o/r"],
      [primary |-> "git", url |-> "https://host/repo"],
      [primary |-> "bogus"] }

\* package records of the configurations of three packages
PkgTemplates3 ==
    { EmptyMap,
      [primary |-> "github", github |-> "o/r"] }

\* settings blocks: none is written as the absent key
SettingsBlocks ==
    { EmptyMap,
      [trust_secondary |-> "False"],
      [verbose |-> "True"] }

Truthy(v) == v = "True"

read_config_noraise(args, config) ==
    [ok |-> TRUE,
     args |-> [k \in DOMAIN args |->
                 IF args[k] = NoValue
                 THEN Get(config, k, Get(defaults, k, NoValue))
                 ELSE args[k]]]

read_config_configfirst(args, config) ==
    IF \E k \in DOMAIN config : k \notin DOMAIN args
    THEN [ok |-> FALSE, args |-> args]
    ELSE [ok |-> TRUE,
          args |-> [k \in DOMAIN args |->
                      IF k \in DOMAIN config THEN config[k]
                      ELSE IF args[k] = NoValue THEN Get(defaults, k, NoValue)
                      ELSE args[k]]]

\* read_config: ok is FALSE when it raises KeyError(k, "Unknown config option")
read_config(args, config) ==
    IF \E k \in DOMAIN config : k \notin DOMAIN args
    THEN [ok |-> FALSE, args |-> args]
    ELSE [ok |-> TRUE,
          args |-> [k \in DOMAIN args |->
                      IF args[k] = NoValue
                      THEN Get(config, k, Get(defaults, k, NoValue))
                      ELSE args[k]]]

\* the names of the dict c in file order, restricted to S
Batch(S) == FilterSeq(order, S)

-----------------------------------------------------------------------------
(* Providers and fetches *)

AurKey == "*aur*"

Queued == [st |-> "queued", ok |-> TRUE, items |-> <<>>]

Inflight == [st |-> "inflight", ok |-> TRUE, items |-> <<>>]

Done(body) == [st |-> "done", ok |-> body.ok, items |-> body.items]

R_1_9 == <<"v", "1", ".", "9">>

R_1_10 == <<"1", ".", "1", "0">>

R_1_10_0 == <<"1", ".", "1", "0", ".", "0">>

R_junk == <<"g", "i", "t">>

FailBody == [ok |-> FALSE, items |-> <<>>]

\* what a request of provider s for `n` packages may answer
Bodies(s, n) ==
    {FailBody} \cup
    { [ok |-> TRUE, items |-> i] :
        i \in IF s = "aur"
              THEN UNION {[1..m -> {R_1_9, R_1_10}] : m \in 0..n}
              ELSE IF s = "git"
              THEN {<<>>, <<R_1_9>>, <<R_1_10, R_junk, R_1_9>>,
                    <<R_1_10, R_1_10_0>>}
              ELSE {<<>>, <<R_1_9>>, <<R_1_10, R_junk, R_1_9>>} }

\* urlparse(base).scheme in ("http", "https")
HttpUrls == {"http://host/repo", "https://host/repo"}

HasId(cfg, n, key) == key \in DOMAIN cfg[n] /\ cfg[n][key] /= ""

\* the fetches provider s appends to aws for the batch, by name
Requests(cfg, s, batch) ==
    CASE s \in {"github", "github_tags"} ->
            FilterSeq(batch, {n \in SeqToSet(batch) : HasId(cfg, n, "github")})
      [] s \in {"gitlab", "gitlab_tags"} ->
            FilterSeq(batch, {n \in SeqToSet(batch) : HasId(cfg, n, "gitlab")})
      [] s = "arch" -> batch
      [] s = "aur" -> <<AurKey>>
      [] s = "git" ->
            FilterSeq(batch, {n \in SeqToSet(batch) :
                                /\ HasId(cfg, n, "url")
                                /\ Get(cfg[n], "primary", NoValue) = "git"
                                /\ cfg[n]["url"] \in HttpUrls})

\* aur awaits its one fetch itself (`_, r = await fetch(...)`): the fetch
\* runs in the provider's own step up to `async with fetch_sem`, and past it
\* when a slot is free.  The other providers hand their fetches to
\* asyncio.wait, which runs each in a task of its own.
InlineFetch(s) == s = "aur"

\* an awaitable of the batch whose coroutine has not begun
Created(batch) == [batch |-> batch, begun |-> FALSE, fetches |-> EmptyMap]

\* provider s for the batch, run up to its first suspension while the
\* semaphore has the value sem
Spawn(cfg, s, batch, sem) ==
    [batch |-> batch,
     begun |-> TRUE,
     fetches |-> [k \in SeqToSet(Requests(cfg, s, batch)) |->
                    IF InlineFetch(s) /\ sem > 0 THEN Inflight ELSE Queued]]

\* the value of the semaphore after that step
SemAfterSpawn(s, sem) == IF InlineFetch(s) /\ sem > 0 THEN sem - 1 ELSE sem

InvDone(i) == i.begun /\ \A k \in DOMAIN i.fetches : i.fetches[k].st = "done"

\* the version a provider records for one response, as a dict of 0 or 1 keys
Latest(name, items) ==
    LET vs == try_parse_versions(items) IN
    IF items /= <<>> /\ vs /= <<>> THEN (name :> Last(vs)) ELSE EmptyMap

First(name, items) ==
    LET vs == IF items = <<>> THEN <<>> ELSE try_parse_versions(<<items[1]>>) IN
    IF vs /= <<>> THEN (name :> vs[1]) ELSE EmptyMap

RECURSIVE AurRes(_, _, _)
AurRes(batch, items, i) ==
    IF i > Len(items) THEN EmptyMap
    ELSE LET vs == try_parse_versions(<<items[i]>>) IN
         (IF vs /= <<>> THEN (batch[i] :> vs[1]) ELSE EmptyMap)
            @@ AurRes(batch, items, i + 1)

\* git: the tags of a response are collected in a set, and the set is given
\* to try_parse_versions, whose sort keeps equal versions in the order the
\* set gives them: vers[-1] for each order the set can have
GitLatest(name, items) ==
    {Latest(name, o) : o \in SetOrders(SeqToSet(items))}

\* the res a provider can build from its joined fetches
RECURSIVE Collect(_, _, _)
Collect(s, i, names) ==
    IF names = {} THEN {EmptyMap}
    ELSE LET n == CHOOSE x \in names : TRUE IN
         {a @@ b :
            a \in (IF s = "arch" THEN {First(n, i.fetches[n].items)}
                   ELSE IF s = "git" THEN GitLatest(n, i.fetches[n].items)
                   ELSE {Latest(n, i.fetches[n].items)}),
            b \in Collect(s, i, names \ {n})}

\* What the provider coroutine can return once its fetches are joined:
\* ok is FALSE when t.result(), json.loads or an index raises.
ProviderResults(s, i) ==
    IF \E k \in DOMAIN i.fetches : ~i.fetches[k].ok
    THEN {[ok |-> FALSE, res |-> EmptyMap]}
    ELSE IF s = "aur"
    THEN LET items == i.fetches[AurKey].items IN
         IF \E x \in 1..Len(items) :
               x > Len(i.batch) /\ try_parse_versions(<<items[x]>>) /= <<>>
         THEN {[ok |-> FALSE, res |-> EmptyMap]}
         ELSE {[ok |-> TRUE,
                res |-> AurRes(i.batch, items, 1)]}
    ELSE {[ok |-> TRUE, res |-> r] : r \in Collect(s, i, DOMAIN i.fetches)}

-----------------------------------------------------------------------------
(* Output *)

RECURSIVE IntStr(_)
IntStr(n) == IF n < 10 THEN <<Digits[n + 1]>> ELSE IntStr(n \div 10) \o <<Digits[(n % 10) + 1]>>

\* str(Version): the release numbers joined by "."
RECURSIVE VersionStr(_)
VersionStr(v) ==
    IF Len(v) = 1 THEN IntStr(v[1])
    ELSE IntStr(v[1]) \o <<".">> \o VersionStr(Tail(v))

make_serializable(s) == [k \in DOMAIN s |-> VersionStr(s[k])]

NotPrinted == [nothing |-> <<>>]

-----------------------------------------------------------------------------
(* The run: cli, get_vers, get_primary, get_secondary *)

Names == DOMAIN c

Unresolved == {k \in Names : k \notin DOMAIN vers}

\* the packages that declare a primary source, and the groups groupby forms
WithPrimary == {n \in Names : "primary" \in DOMAIN c[n]}

Groups_all == sources

Groups == {c[n]["primary"] : n \in WithPrimary}

Group_all(k) == Batch(WithPrimary)

Group(k) == Batch({n \in WithPrimary : c[n]["primary"] = k})

RECURSIVE LogOf(_, _, _)
LogOf(phase, ks, i) ==
    IF ks = <<>> THEN <<>>
    ELSE <<[phase |-> phase, source |-> Head(ks), batch |-> i[Head(ks)].batch]>>
            \o LogOf(phase, Tail(ks), i)

\* the package tables of the modelled configuration files: up to three
\* packages, or one package whose table is named with the empty string ([""])
Configs ==
    UNION {[S -> PkgTemplates] : S \in {{}, {"p1"}, {"p1", "p2"}, {""}}}
        \cup [{"p1", "p2", "p3"} -> PkgTemplates3]

KwargsChoices ==
    { [k \in OptNames |->
          IF k \in DOMAIN f THEN f[k] ELSE NoValue] :
      f \in [{"primary", "secondary", "trust_primary", "trust_secondary"}
                -> {NoValue, "False"}] }

Init ==
    /\ pc = "cli"
    /\ kwargs \in KwargsChoices
    /\ \E cfg \in Configs :
          \/ c = cfg
          \/ \E blk \in SettingsBlocks :
                /\ blk = EmptyMap => DOMAIN cfg \subseteq {"p1"}
                /\ c = cfg @@ ("johnny_config" :> blk)
    /\ jc = EmptyMap
    /\ vers = EmptyMap
    /\ asked = {}
    /\ left = {}
    /\ inv = EmptyMap
    /\ merged = {}
    /\ pass = 0
    /\ todo = <<>>
    /\ fetch_sem = parallelism
    /\ closed = 0
    /\ failure = "none"
    /\ exitcode = -1
    /\ printed = NotPrinted
    /\ log = <<>>
    /\ offered = EmptyMap
    /\ b12 = EmptyMap
    /\ b21 = EmptyMap
    /\ pvers = EmptyMap
    /\ raw = <<>>
    /\ parsed = <<>>
    /\ argv = kwargs
    /\ order \in FileOrders(DOMAIN c)

\* cli: toml.load, read_config, del c["johnny_config"]
Cli ==
    /\ pc = "cli"
    /\ jc' = Get(c, "johnny_config", EmptyMap)
    /\ LET r == read_config(kwargs, jc') IN
       IF ~r.ok
       THEN /\ failure' = "KeyError:option"
            /\ pc' = "crashed"
            /\ exitcode' = 1
            /\ UNCHANGED <<kwargs, c, order>>
       ELSE /\ kwargs' = r.args
            /\ c' = IF jc' /= EmptyMap
                    THEN Restrict(c, DOMAIN c \ {"johnny_config"})
                    ELSE c
            /\ order' = IF jc' /= EmptyMap
                        THEN FilterSeq(order, DOMAIN c \ {"johnny_config"})
                        ELSE order
            /\ pc' = "get_vers"
            /\ UNCHANGED <<failure, exitcode>>
    /\ UNCHANGED <<vers, asked, left, inv, merged, pass, todo, fetch_sem,
                   closed, printed, log, offered, b12, b21, pvers,
                   raw, parsed, argv>>

\* get_vers up to the first await: get_primary builds aws, one awaitable per
\* group, and suspends in asyncio.wait(aws) before any provider has begun
GetVers ==
    /\ pc = "get_vers"
    /\ IF ~Truthy(kwargs["primary"])
       THEN /\ pc' = "after_primary"
            /\ UNCHANGED <<inv, failure, log>>
       ELSE IF \E k \in Groups : k \notin sources
       THEN /\ failure' = "KeyError:source"
            /\ pc' = "raise"
            /\ UNCHANGED <<inv, log>>
       ELSE IF Groups = {}
       THEN /\ pc' = "after_primary"
            /\ UNCHANGED <<inv, failure, log>>
       ELSE /\ inv' = [k \in Groups |-> Created(Group(k))]
            /\ pc' = "primary_wait"
            /\ UNCHANGED <<failure, log>>
    /\ UNCHANGED <<kwargs, c, jc, vers, asked, left, merged, pass, todo, fetch_sem,
                   closed, exitcode, printed, offered, b12, b21, pvers,
                   raw, parsed, argv, order>>

\* the task asyncio.wait made of do_get_primary(s, args, x, k) begins: the
\* tasks of the set begin one at a time, in the order the set gives them
ProviderBegin(k) ==
    /\ pc = "primary_wait"
    /\ k \in DOMAIN inv
    /\ ~inv[k].begun
    /\ inv' = [inv EXCEPT ![k] = Spawn(c, k, inv[k].batch, fetch_sem)]
    /\ fetch_sem' = SemAfterSpawn(k, fetch_sem)
    /\ log' = log \o LogOf("primary", <<k>>, inv')
    /\ UNCHANGED <<pc, kwargs, c, jc, vers, asked, left, merged, pass, todo,
                   closed, failure, exitcode, printed, offered, b12, b21, pvers,
                   raw, parsed, argv, order>>

FetchAcquire_nogate(s, k) ==
    /\ pc \in {"primary_wait", "sec_wait"}
    /\ inv[s].fetches[k].st = "queued"
    /\ fetch_sem' = fetch_sem - 1
    /\ inv' = [inv EXCEPT ![s].fetches[k] = Inflight]
    /\ UNCHANGED <<pc, kwargs, c, jc, vers, asked, left, merged, pass, todo,
                   closed, failure, exitcode, printed, log, offered, b12, b21, pvers,
                   raw, parsed, argv, order>>

\* fetch: async with fetch_sem (acquire)
FetchAcquire(s, k) ==
    /\ pc \in {"primary_wait", "sec_wait"}
    /\ inv[s].fetches[k].st = "queued"
    /\ fetch_sem > 0
    /\ fetch_sem' = fetch_sem - 1
    /\ inv' = [inv EXCEPT ![s].fetches[k] = Inflight]
    /\ UNCHANGED <<pc, kwargs, c, jc, vers, asked, left, merged, pass, todo,
                   closed, failure, exitcode, printed, log, offered, b12, b21, pvers,
                   raw, parsed, argv, order>>

FetchComplete_leak(s, k, body) ==
    /\ pc \in {"primary_wait", "sec_wait"}
    /\ inv[s].fetches[k].st = "inflight"
    /\ fetch_sem' = IF body.ok THEN fetch_sem + 1 ELSE fetch_sem
    /\ inv' = [inv EXCEPT ![s].fetches[k] = Done(body)]
    /\ UNCHANGED <<pc, kwargs, c, jc, vers, asked, left, merged, pass, todo,
                   closed, failure, exitcode, printed, log, offered, b12, b21,
                   pvers, raw, parsed, argv, order>>

\* fetch: the response (or the exception) arrives, the semaphore is released
FetchComplete(s, k, body) ==
    /\ pc \in {"primary_wait", "sec_wait"}
    /\ inv[s].fetches[k].st = "inflight"
    /\ fetch_sem' = fetch_sem + 1
    /\ inv' = [inv EXCEPT ![s].fetches[k] = Done(body)]
    /\ UNCHANGED <<pc, kwargs, c, jc, vers, asked, left, merged, pass, todo,
                   closed, failure, exitcode, printed, log, offered, b12, b21, pvers,
                   raw, parsed, argv, order>>

JoinReady_first == \E s \in DOMAIN inv : InvDone(inv[s])

\* asyncio.wait(aws) returns: every awaitable of the batch is done
JoinReady == \A s \in DOMAIN inv : InvDone(inv[s])

\* get_primary: done, _ = await asyncio.wait(aws)
PrimaryJoin ==
    /\ pc = "primary_wait"
    /\ JoinReady
    /\ pc' = "primary_merge"
    /\ UNCHANGED <<kwargs, c, jc, vers, asked, left, inv, merged, pass, todo,
                   fetch_sem, closed, failure, exitcode, printed, log, offered,
                   b12, b21, pvers, raw, parsed, argv, order>>

PrimaryMerge_last(k) ==
    /\ pc = "primary_merge"
    /\ k \in DOMAIN inv \ merged
    /\ \E r \in ProviderResults(k, inv[k]) :
       IF ~r.ok
       THEN /\ failure' = "provider"
            /\ pc' = "raise"
            /\ UNCHANGED <<vers, merged>>
       ELSE /\ vers' = r.res
            /\ merged' = merged \cup {k}
            /\ UNCHANGED <<pc, failure>>
    /\ UNCHANGED <<kwargs, c, jc, asked, left, inv, pass, todo, fetch_sem, closed,
                   exitcode, printed, log, offered, b12, b21, pvers,
                   raw, parsed, argv, order>>

\* get_primary: one turn of `for t in done` (a set: any order)
PrimaryMerge(k) ==
    /\ pc = "primary_merge"
    /\ k \in DOMAIN inv \ merged
    /\ \E r \in ProviderResults(k, inv[k]) :
       IF ~r.ok
       THEN /\ failure' = "provider"
            /\ pc' = "raise"
            /\ UNCHANGED <<vers, merged>>
       ELSE /\ vers' = update(vers, r.res)
            /\ merged' = merged \cup {k}
            /\ UNCHANGED <<pc, failure>>
    /\ UNCHANGED <<kwargs, c, jc, asked, left, inv, pass, todo, fetch_sem, closed,
                   exitcode, printed, log, offered, b12, b21, pvers,
                   raw, parsed, argv, order>>

\* get_primary returns vers, asked
PrimaryReturn ==
    /\ pc = "primary_merge"
    /\ merged = DOMAIN inv
    /\ asked' = DOMAIN inv
    /\ inv' = EmptyMap
    /\ merged' = {}
    /\ pvers' = vers
    /\ pc' = "after_primary"
    /\ UNCHANGED <<kwargs, c, jc, vers, left, pass, todo, fetch_sem, closed,
                   failure, exitcode, printed, log, offered, b12, b21,
                   raw, parsed, argv, order>>

LeftAfterPrimary_unresolved == Unresolved

\* get_vers: the LeftSet handed to the secondary phase
LeftAfterPrimary ==
    IF Truthy(kwargs["trust_primary"]) THEN Unresolved ELSE Names

ComputeLeft ==
    /\ pc = "after_primary"
    /\ left' = LeftAfterPrimary
    /\ pc' = "left_computed"
    /\ UNCHANGED <<kwargs, c, jc, vers, asked, inv, merged, pass, todo, fetch_sem,
                   closed, failure, exitcode, printed, log, offered, b12, b21, pvers,
                   raw, parsed, argv, order>>

PassList_all(p) == sources_list

PassList(p) ==
    FilterSeq(sources_list,
              {x \in SeqToSet(sources_list) :
                  IF p = 1 THEN x \notin asked ELSE x \in asked})

\* get_vers: `if arg_secondary and left`, then the first run_secondary
SecondaryStart ==
    /\ pc = "left_computed"
    /\ IF Truthy(kwargs["secondary"]) /\ left /= {}
       THEN /\ pass' = 1
            /\ todo' = PassList(1)
            /\ pc' = "sec_next"
       ELSE /\ pc' = "return"
            /\ UNCHANGED <<pass, todo>>
    /\ UNCHANGED <<kwargs, c, jc, vers, asked, left, inv, merged, fetch_sem,
                   closed, failure, exitcode, printed, log, offered, b12, b21, pvers,
                   raw, parsed, argv, order>>

SecondaryInvoke_noleft ==
    /\ pc = "sec_next"
    /\ todo /= <<>>
    /\ LET s == Head(todo) IN
       /\ inv' = (s :> Spawn(c, s, Batch(left), fetch_sem))
       /\ fetch_sem' = SemAfterSpawn(s, fetch_sem)
       /\ log' = log \o LogOf("secondary", <<s>>, inv')
    /\ todo' = Tail(todo)
    /\ pc' = "sec_wait"
    /\ UNCHANGED <<kwargs, c, jc, vers, asked, left, merged, pass,
                   closed, failure, exitcode, printed, offered, b12, b21, pvers,
                   raw, parsed, argv, order>>

\* run_secondary: the next provider of the pass is awaited, and runs up to
\* its first suspension
SecondaryInvoke ==
    /\ pc = "sec_next"
    /\ todo /= <<>>
    /\ left /= {}
    /\ LET s == Head(todo) IN
       /\ inv' = (s :> Spawn(c, s, Batch(left), fetch_sem))
       /\ fetch_sem' = SemAfterSpawn(s, fetch_sem)
       /\ log' = log \o LogOf("secondary", <<s>>, inv')
    /\ todo' = Tail(todo)
    /\ pc' = "sec_wait"
    /\ UNCHANGED <<kwargs, c, jc, vers, asked, left, merged, pass,
                   closed, failure, exitcode, printed, offered, b12, b21, pvers,
                   raw, parsed, argv, order>>

LeftAfterSecondary_keep(v) == left

LeftAfterSecondary_recompute(v) == {k \in Names : k \notin DOMAIN v}

\* get_secondary_source: the LeftSet after the provider's answer is merged
LeftAfterSecondary(v) ==
    IF Truthy(kwargs["trust_secondary"])
    THEN {k \in Names : k \notin DOMAIN v}
    ELSE left

\* get_secondary_source after `new = await s(args, left)`
SecondaryMerge ==
    /\ pc = "sec_wait"
    /\ JoinReady
    /\ LET s == CHOOSE x \in DOMAIN inv : TRUE IN
       \E r \in ProviderResults(s, inv[s]) :
           IF ~r.ok
           THEN /\ failure' = "provider"
                /\ pc' = "raise"
                /\ UNCHANGED <<vers, left, inv>>
           ELSE /\ vers' = update(vers, r.res)
                /\ left' = LeftAfterSecondary(vers')
                /\ inv' = EmptyMap
                /\ pc' = "sec_next"
                /\ UNCHANGED failure
    /\ UNCHANGED <<kwargs, c, jc, asked, merged, pass, todo, fetch_sem, closed,
                   exitcode, printed, log, offered, b12, b21, pvers,
                   raw, parsed, argv, order>>

PassEnd_early ==
    /\ pc = "sec_next"
    /\ IF pass = 1
       THEN /\ pass' = 2
            /\ todo' = IF left /= {} THEN PassList(2) ELSE <<>>
            /\ UNCHANGED pc
       ELSE /\ pc' = "return"
            /\ todo' = <<>>
            /\ UNCHANGED pass
    /\ UNCHANGED <<kwargs, c, jc, vers, asked, left, inv, merged, fetch_sem,
                   closed, failure, exitcode, printed, log, offered, b12, b21, pvers,
                   raw, parsed, argv, order>>

\* run_secondary returns (the list is used up, or `if not left: break`);
\* get_secondary goes on to the second run_secondary, or returns
PassEnd ==
    /\ pc = "sec_next"
    /\ (todo = <<>> \/ left = {})
    /\ IF pass = 1
       THEN /\ pass' = 2
            /\ todo' = IF left /= {} THEN PassList(2) ELSE <<>>
            /\ UNCHANGED pc
       ELSE /\ pc' = "return"
            /\ todo' = <<>>
            /\ UNCHANGED pass
    /\ UNCHANGED <<kwargs, c, jc, vers, asked, left, inv, merged, fetch_sem,
                   closed, failure, exitcode, printed, log, offered, b12, b21, pvers,
                   raw, parsed, argv, order>>

\* get_vers returns vers, left; finally: await asession.close()
Return ==
    /\ pc = "return"
    /\ closed' = closed + 1
    /\ pc' = "returned"
    /\ UNCHANGED <<kwargs, c, jc, vers, asked, left, inv, merged, pass, todo,
                   fetch_sem, failure, exitcode, printed, log, offered, b12, b21, pvers,
                   raw, parsed, argv, order>>

Raise_noclose ==
    /\ pc = "raise"
    /\ pc' = "crashed"
    /\ exitcode' = 1
    /\ UNCHANGED <<kwargs, c, jc, vers, asked, left, inv, merged, pass, todo,
                   fetch_sem, closed, failure, printed, log, offered, b12, b21,
                   pvers, raw, parsed, argv, order>>

\* an exception leaves get_vers; finally: await asession.close(); the
\* interpreter ends with a traceback and status 1
Raise ==
    /\ pc = "raise"
    /\ closed' = closed + 1
    /\ pc' = "crashed"
    /\ exitcode' = 1
    /\ UNCHANGED <<kwargs, c, jc, vers, asked, left, inv, merged, pass, todo,
                   fetch_sem, failure, printed, log, offered, b12, b21, pvers,
                   raw, parsed, argv, order>>

\* sep.join(names), as the sequence of the strings it concatenates
RECURSIVE Join(_, _)
Join(sep, names) ==
    IF names = <<>> THEN <<>>
    ELSE IF Len(names) = 1 THEN <<names[1]>>
    ELSE <<Head(names), sep>> \o Join(sep, Tail(names))

\* the truth value of a string: it is not the empty string
StrTruthy(pieces) == \E i \in DOMAIN pieces : pieces[i] /= ""

\* get_vers: left = ", ".join([k for k in left.keys()]), returned to cli
LeftString == Join(", ", Batch(left))

\* cli: `if left: sys.exit(1)`, left being the string get_vers returned
ExitStatus == IF StrTruthy(LeftString) THEN 1 ELSE 0

\* cli: print(json.dumps(make_serializable(vers))), then the exit status
CliPrint ==
    /\ pc = "returned"
    /\ printed' = make_serializable(vers)
    /\ exitcode' = ExitStatus
    /\ pc' = "exited"
    /\ UNCHANGED <<kwargs, c, jc, vers, asked, left, inv, merged, pass, todo,
                   fetch_sem, closed, failure, log, offered, b12, b21, pvers,
                   raw, parsed, argv, order>>

Next ==
    \/ Cli
    \/ GetVers
    \/ \E k \in DOMAIN inv : ProviderBegin(k)
    \/ \E s \in DOMAIN inv : \E k \in DOMAIN inv[s].fetches : FetchAcquire(s, k)
    \/ \E s \in DOMAIN inv : \E k \in DOMAIN inv[s].fetches :
          \E body \in Bodies(s, Len(inv[s].batch)) : FetchComplete(s, k, body)
    \/ PrimaryJoin
    \/ \E k \in DOMAIN inv : PrimaryMerge(k)
    \/ PrimaryReturn
    \/ ComputeLeft
    \/ SecondaryStart
    \/ SecondaryInvoke
    \/ SecondaryMerge
    \/ PassEnd
    \/ Return
    \/ Raise
    \/ CliPrint

Spec == Init /\ [][Next]_vars

-----------------------------------------------------------------------------
(* The merge engine on its own: sequences of update(old, new) *)

MergePkgs == {"p1", "p2"}

MergeVersions == {<<1, 9>>, <<1, 10>>, <<1, 10, 0>>}

\* SourceBatchResults: a version for some of the packages
Batches == UNION {[S -> MergeVersions] : S \in SUBSET MergePkgs}

MergeInit ==
    /\ pc = "merge"
    /\ vers = EmptyMap
    /\ offered = [p \in MergePkgs |-> {}]
    /\ b12 = EmptyMap
    /\ b21 = EmptyMap
    /\ kwargs = EmptyMap
    /\ c = EmptyMap
    /\ jc = EmptyMap
    /\ asked = {}
    /\ left = {}
    /\ inv = EmptyMap
    /\ merged = {}
    /\ pass = 0
    /\ todo = <<>>
    /\ fetch_sem = parallelism
    /\ closed = 0
    /\ failure = "none"
    /\ exitcode = -1
    /\ printed = NotPrinted
    /\ log = <<>>
    /\ pvers = EmptyMap
    /\ raw = <<>>
    /\ parsed = <<>>
    /\ argv = EmptyMap
    /\ order = <<>>

\* vers = update(vers, new)
MergeBatch(new) ==
    /\ pc = "merge"
    /\ vers' = update(vers, new)
    /\ offered' = [p \in MergePkgs |->
                     offered[p] \cup (IF p \in DOMAIN new THEN {new[p]} ELSE {})]
    /\ UNCHANGED <<pc, kwargs, c, jc, asked, left, inv, merged, pass, todo,
                   fetch_sem, closed, failure, exitcode, printed, log, b12, b21, pvers,
                   raw, parsed, argv, order>>

\* the two orders of merging B1 and B2 into the current map
MergeBoth(B1, B2) ==
    /\ pc = "merge"
    /\ b12' = update(update(vers, B1), B2)
    /\ b21' = update(update(vers, B2), B1)
    /\ UNCHANGED <<pc, kwargs, c, jc, vers, asked, left, inv, merged, pass, todo,
                   fetch_sem, closed, failure, exitcode, printed, log, offered,
                   pvers,
                   raw, parsed, argv, order>>

MergeNext ==
    \/ \E new \in Batches : MergeBatch(new)
    \/ \E B1 \in Batches : \E B2 \in Batches : MergeBoth(B1, B2)

MergeSpec == MergeInit /\ [][MergeNext]_vars

-----------------------------------------------------------------------------
(* The version model on its own: try_parse_versions on lists of raw strings *)

R_1_9rc1 == <<"1", ".", "9", "r", "c", "1">>

R_1_9v == <<"1", ".", "9", "v">>

R_1_0_dev == <<"1", ".", "0", ".", "d", "e", "v">>

R_empty == <<>>

\* raw version strings as the providers hand them over: tags with and
\* without the v prefix, a pre-release, a development release, free text
RawStrings == {R_1_9, R_1_10, R_1_10_0, R_1_9rc1, R_1_9v, R_1_0_dev, R_junk, R_empty}

\* the longest list of raw strings
MaxRaw == 3

RawLists == UNION {[1..n -> RawStrings] : n \in 0..MaxRaw}

ParseInit ==
    /\ pc = "parse"
    /\ raw \in RawLists
    /\ parsed = <<>>
    /\ kwargs = EmptyMap
    /\ c = EmptyMap
    /\ jc = EmptyMap
    /\ vers = EmptyMap
    /\ asked = {}
    /\ left = {}
    /\ inv = EmptyMap
    /\ merged = {}
    /\ pass = 0
    /\ todo = <<>>
    /\ fetch_sem = parallelism
    /\ closed = 0
    /\ failure = "none"
    /\ exitcode = -1
    /\ printed = NotPrinted
    /\ log = <<>>
    /\ offered = EmptyMap
    /\ b12 = EmptyMap
    /\ b21 = EmptyMap
    /\ pvers = EmptyMap
    /\ argv = EmptyMap
    /\ order = <<>>

\* parsed = try_parse_versions(raw)
TryParse ==
    /\ pc = "parse"
    /\ parsed' = try_parse_versions(raw)
    /\ pc' = "parsed"
    /\ UNCHANGED <<kwargs, c, jc, vers, asked, left, inv, merged, pass, todo,
                   fetch_sem, closed, failure, exitcode, printed, log, offered,
                   b12, b21, pvers, raw, argv, order>>

ParseNext == TryParse

ParseSpec == ParseInit /\ [][ParseNext]_vars

-----------------------------------------------------------------------------

(* Option resolution on its own: cli up to the call of get_vers *)

\* the options as click passes them: a flag is None, True or False, a
\* token is None or a string
ConfigArgs ==
    { [k \in OptNames |->
          IF k \in DOMAIN f THEN f[k]
          ELSE IF k = "github_token" THEN t
          ELSE NoValue] :
      f \in [{"primary", "trust_secondary", "print_names", "quiet"}
                -> {NoValue, "True", "False"}],
      t \in {NoValue, "tok"} }

\* the [johnny_config] tables of the configuration files
ConfigBlocks ==
    UNION {[S -> {"True", "False"}] : S \in SUBSET {"primary", "trust_secondary", "quiet"}}
        \cup {[github_token |-> "cfgtok"],
              [verbose |-> "True"],
              [primary |-> "False", verbose |-> "True"]}

ConfigInit ==
    /\ pc = "cli"
    /\ kwargs \in ConfigArgs
    /\ argv = kwargs
    /\ \/ c = EmptyMap
       \/ \E blk \in ConfigBlocks : c = ("johnny_config" :> blk)
    /\ jc = EmptyMap
    /\ vers = EmptyMap
    /\ asked = {}
    /\ left = {}
    /\ inv = EmptyMap
    /\ merged = {}
    /\ pass = 0
    /\ todo = <<>>
    /\ fetch_sem = parallelism
    /\ closed = 0
    /\ failure = "none"
    /\ exitcode = -1
    /\ printed = NotPrinted
    /\ log = <<>>
    /\ offered = EmptyMap
    /\ b12 = EmptyMap
    /\ b21 = EmptyMap
    /\ pvers = EmptyMap
    /\ raw = <<>>
    /\ parsed = <<>>
    /\ order \in FileOrders(DOMAIN c)

ConfigNext == Cli

ConfigSpec == ConfigInit /\ [][ConfigNext]_vars

-----------------------------------------------------------------------------

(* The run under the scheduling of the event loop *)

\* configuration files of the runs checked for progress: three packages of
\* one provider (more requests than slots), and one or two packages of any
\* kind
LiveConfigs ==
    [{"p1", "p2", "p3"} -> {[primary |-> "github", github |-> "o/r"]}]
        \cup [{"p1"} -> PkgTemplates]
        \cup [{"p1", "p2"} -> {EmptyMap, [primary |-> "aur"]}]

LiveKwargs ==
    {a \in KwargsChoices : a["primary"] = NoValue /\ a["trust_primary"] = NoValue}

LiveInit ==
    /\ pc = "cli"
    /\ kwargs \in LiveKwargs
    /\ argv = kwargs
    /\ c \in LiveConfigs
    /\ jc = EmptyMap
    /\ vers = EmptyMap
    /\ asked = {}
    /\ left = {}
    /\ inv = EmptyMap
    /\ merged = {}
    /\ pass = 0
    /\ todo = <<>>
    /\ fetch_sem = parallelism
    /\ closed = 0
    /\ failure = "none"
    /\ exitcode = -1
    /\ printed = NotPrinted
    /\ log = <<>>
    /\ offered = EmptyMap
    /\ b12 = EmptyMap
    /\ b21 = EmptyMap
    /\ pvers = EmptyMap
    /\ raw = <<>>
    /\ parsed = <<>>
    /\ order \in FileOrders(DOMAIN c)

\* the semaphore admits a waiting request when a slot is free
Acquire ==
    \E s \in DOMAIN inv : \E k \in DOMAIN inv[s].fetches : FetchAcquire(s, k)

\* an admitted request completes or fails
Complete ==
    \E s \in DOMAIN inv : \E k \in DOMAIN inv[s].fetches :
        \E body \in Bodies(s, Len(inv[s].batch)) : FetchComplete(s, k, body)

\* the event loop runs a coroutine that is ready: the steps of the control
\* flow other than the merges of a provider's answer
Resume ==
    \/ Cli
    \/ GetVers
    \/ \E k \in DOMAIN inv : ProviderBegin(k)
    \/ PrimaryJoin
    \/ PrimaryReturn
    \/ ComputeLeft
    \/ SecondaryStart
    \/ SecondaryInvoke
    \/ PassEnd
    \/ Return
    \/ Raise
    \/ CliPrint

\* the event loop resumes the coroutine that awaits a provider's answer
Merge ==
    \/ \E k \in DOMAIN inv : PrimaryMerge(k)
    \/ SecondaryMerge

\* ENABLED <<Merge>>_vars, spelled out: the guards of the two merges (each
\* branch of a merge assigns every variable and changes pc or merged)
MergeReady ==
    \/ pc = "primary_merge" /\ merged /= DOMAIN inv
    \/ pc = "sec_wait" /\ JoinReady

\* WF_vars(Merge) with its enabling condition written as MergeReady
MergeFair == <>[]MergeReady => []<><<Merge>>_vars

LiveSpec ==
    /\ LiveInit
    /\ [][Next]_vars
    /\ WF_vars(Acquire)
    /\ WF_vars(Complete)
    /\ WF_vars(Resume)
    /\ MergeFair

-----------------------------------------------------------------------------

(* C1 *)

\* the recorded version is one that was offered, and none offered is greater
C1_IsMaxOffered ==
    \A p \in MergePkgs :
        IF offered[p] = {} THEN p \notin DOMAIN vers
        ELSE /\ p \in DOMAIN vers
             /\ vers[p] \in offered[p]
             /\ \A v \in offered[p] : ~VerGT(v, vers[p])

\* a merge removes no key, lowers no version and replaces an entry only by
\* a strictly greater version
C1_Step ==
    \A p \in DOMAIN vers :
        /\ p \in DOMAIN vers'
        /\ ~VerLT(vers'[p], vers[p])
        /\ (vers'[p] /= vers[p] => VerGT(vers'[p], vers[p]))

\* C1: over every sequence of update merges, the version recorded for a
\* package never decreases, no key is removed, an existing entry is replaced
\* only by a strictly greater version, and the recorded version is the
\* maximum of the versions offered for the package so far.
C1_MergeMonotonic == [](C1_IsMaxOffered) /\ [][C1_Step]_vars

\* an entry that was replaced by a greater version and kept against lesser
\* and equal ones
C1_Witness ==
    /\ pc = "merge"
    /\ "p1" \in DOMAIN vers
    /\ vers["p1"] = <<1, 10>>
    /\ offered["p1"] = MergeVersions

-----------------------------------------------------------------------------
(* C2 *)

\* C2 as stated: merging B1 then B2 gives the same ResolutionMap as merging
\* B2 then B1, also when the two offer versions that compare equal (the
\* same packages with the same versions, which then print the same).
C2_SameMap == b12 = b21

\* C2 as amended: merging B1 then B2 and merging B2 then B1 give maps with
\* the same packages whose versions compare equal package by package (a tie
\* keeps the spelling that was merged first, so "1.10" and "1.10.0" may differ).
C2_SameUpToEquality ==
    /\ DOMAIN b12 = DOMAIN b21
    /\ \A k \in DOMAIN b12 : VerEQ(b12[k], b21[k])

\* the two orders were merged, with a tie on p1 and a real maximum on p2
C2_Witness ==
    /\ pc = "merge"
    /\ DOMAIN b12 = MergePkgs
    /\ b12["p1"] = <<1, 10>>
    /\ b21["p1"] = <<1, 10, 0>>
    /\ b12["p2"] = <<1, 10>>
    /\ "p2" \in DOMAIN vers
    /\ vers["p2"] = <<1, 9>>

-----------------------------------------------------------------------------
(* C3 *)

\* the points at which get_vers holds a LeftSet: after the primary phase,
\* between two secondary providers, and when it returns
ObservationPoint ==
    pc \in {"left_computed", "sec_next", "return", "returned", "exited"}

SecondaryAnswered ==
    /\ pc \in {"sec_next", "return", "returned", "exited"}
    /\ \E i \in 1..Len(log) : log[i].phase = "secondary"

\* C3 as stated: at every observation point, for every combination of the
\* options, LeftSet is exactly the set of configured packages that have no
\* entry in the ResolutionMap.
C3_LeftIsUnresolved == ObservationPoint => left = Unresolved

\* C3 as amended: at every observation point LeftSet contains every
\* configured package that has no entry in the ResolutionMap; it is exactly
\* that set when trust_primary is set and either trust_secondary is set or
\* the secondary phase is disabled, and, with trust_secondary set, from the
\* first secondary answer on.
C3_LeftCoversUnresolved ==
    ObservationPoint =>
        /\ Unresolved \subseteq left
        /\ ( /\ Truthy(kwargs["trust_primary"])
             /\ (Truthy(kwargs["trust_secondary"]) \/ ~Truthy(kwargs["secondary"]))
             => left = Unresolved )
        /\ ( Truthy(kwargs["trust_secondary"]) /\ SecondaryAnswered
             => left = Unresolved )

\* a secondary provider answered for one of two packages left
C3_Witness ==
    /\ pc = "sec_next"
    /\ SecondaryAnswered
    /\ Truthy(kwargs["trust_primary"])
    /\ Truthy(kwargs["trust_secondary"])
    /\ left /= {}
    /\ left /= Names
    /\ left = Unresolved

-----------------------------------------------------------------------------
(* C4 *)

\* C4: a run that completes exits with status 0 exactly when every
\* configured package has an entry in the final ResolutionMap, and with
\* status 1 exactly when at least one has none.
C4_ExitStatusTellsResolved ==
    pc = "exited" =>
        /\ (exitcode = 0 <=> Unresolved = {})
        /\ (exitcode = 1 <=> Unresolved /= {})

-----------------------------------------------------------------------------
(* C5 *)

SomeInvocationFailed ==
    \E s \in DOMAIN inv : \E k \in DOMAIN inv[s].fetches : ~inv[s].fetches[k].ok

\* C5: a provider invocation that fails as a whole counts as an empty
\* result: the run goes on and still produces its ResolutionMap and LeftSet
\* (it never ends on the provider's exception).
C5_ProviderFailureIsEmptyResult ==
    SomeInvocationFailed => failure = "none" /\ pc /= "crashed"

-----------------------------------------------------------------------------
(* C6 *)

UnknownPrimary ==
    \E n \in DOMAIN c \ {"johnny_config"} :
        "primary" \in DOMAIN c[n] /\ c[n]["primary"] \notin sources

\* C6: when a package declares a primary source that is not registered, the
\* run fails as a configuration error before any provider is invoked, for
\* every setting of the options.
C6_UnknownPrimaryFailsFast ==
    UnknownPrimary =>
        /\ log = <<>>
        /\ pc \notin {"returned", "exited"}

-----------------------------------------------------------------------------
(* C7 *)

UnknownOption == \E k \in DOMAIN jc : k \notin OptNames

\* C7: with an option name outside the recognised set in the settings
\* block, read_config raises before get_vers starts: no provider is
\* invoked, no request is issued and nothing is printed.
C7_UnknownOptionFailsFast ==
    UnknownOption =>
        /\ pc = "crashed"
        /\ failure = "KeyError:option"
        /\ log = <<>>
        /\ inv = EmptyMap
        /\ fetch_sem = parallelism
        /\ printed = NotPrinted
        /\ vers = EmptyMap

\* the run ended on the unknown option of a file that also lists packages
C7_Witness ==
    /\ UnknownOption
    /\ pc = "crashed"
    /\ failure = "KeyError:option"
    /\ DOMAIN c = {"p1", "p2", "johnny_config"}

-----------------------------------------------------------------------------
(* C8 *)

FetchKeys == UNION {{<<s, k>> : k \in DOMAIN inv[s].fetches} : s \in DOMAIN inv}

Admitted == {f \in FetchKeys : inv[f[1]].fetches[f[2]].st = "inflight"}

Waiting == {f \in FetchKeys : inv[f[1]].fetches[f[2]].st = "queued"}

\* C8: the requests admitted by the gate and not yet completed are never
\* more than the ceiling; the gate's value counts the free slots.
C8_AdmittedWithinCeiling ==
    /\ Cardinality(Admitted) <= parallelism
    /\ fetch_sem = parallelism - Cardinality(Admitted)
    /\ fetch_sem >= 0

\* the gate is full and a request of the same batch waits
C8_Witness ==
    /\ Cardinality(Admitted) = parallelism
    /\ fetch_sem = 0
    /\ Waiting /= {}

-----------------------------------------------------------------------------
(* C9 *)

AllJoined == \A s \in DOMAIN inv :
                /\ inv[s].begun
                /\ \A k \in DOMAIN inv[s].fetches : inv[s].fetches[k].st = "done"

\* while the batch of the primary phase is awaited it is the whole batch
\* and nothing of it is merged; merging happens only on a joined batch
C9_State ==
    /\ pc = "primary_wait" =>
          /\ DOMAIN inv = Groups
          /\ merged = {}
          /\ vers = EmptyMap
    /\ merged /= {} => AllJoined

\* C9: the primary groups are submitted together as one batch, no result
\* of the batch is merged before every invocation of it has completed, and
\* the ResolutionMap changes only in a step of the control flow taken
\* after the join.
C9_MergeOnlyAfterJoin ==
    [](C9_State) /\ [][vers' /= vers => AllJoined /\ pc \in {"primary_merge", "sec_wait", "merge"}]_vars

\* one group of the batch has its answer while another is still in flight,
\* and nothing is merged
C9_Witness ==
    /\ pc = "primary_wait"
    /\ Cardinality(DOMAIN inv) = 2
    /\ \E s \in DOMAIN inv :
          /\ InvDone(inv[s])
          /\ \E r \in ProviderResults(s, inv[s]) : DOMAIN r.res /= {}
    /\ Admitted /= {}
    /\ vers = EmptyMap

-----------------------------------------------------------------------------
(* C10 *)

SecondaryLog(i) == log[i].phase = "secondary"

\* C10: the phases are strictly sequenced.  A secondary provider runs only
\* when the primary batch is completed and merged; a provider of pass 2
\* runs only when every provider of pass 1 has run; at most one secondary
\* provider is awaited at a time, and the next one starts only when the
\* previous one's answer is merged.
C10_PhasesSequenced ==
    /\ \A i \in 1..Len(log) : \A j \in 1..Len(log) :
          (SecondaryLog(i) /\ ~SecondaryLog(j)) => j < i
    /\ (\E i \in 1..Len(log) : SecondaryLog(i)) =>
          /\ merged = {}
          /\ pc \notin {"primary_wait", "primary_merge"}
          /\ Truthy(kwargs["primary"]) => asked = Groups
    /\ \A i \in 1..Len(log) :
          (SecondaryLog(i) /\ log[i].source \in asked) =>
              \A x \in SeqToSet(sources_list) \ asked :
                  \E j \in 1..(i - 1) : SecondaryLog(j) /\ log[j].source = x
    /\ pc = "sec_wait" =>
          /\ Cardinality(DOMAIN inv) = 1
          /\ \A s \in DOMAIN inv : SecondaryLog(Len(log)) /\ log[Len(log)].source = s
    /\ pc = "sec_next" => inv = EmptyMap

\* a provider of pass 2 is awaited, after a primary batch and pass 1
C10_Witness ==
    /\ pc = "sec_wait"
    /\ pass = 2
    /\ Admitted /= {}
    /\ \E i \in 1..Len(log) : ~SecondaryLog(i)
    /\ DOMAIN vers /= {}

-----------------------------------------------------------------------------
(* C11 *)

\* what the joined invocation of group k can have returned
Answer(k) == {r.res : r \in ProviderResults(k, inv[k])}

\* one answer for each invocation folded so far
Answers ==
    {a \in [merged -> UNION {Answer(k) : k \in merged}] :
        \A k \in merged : a[k] \in Answer(k)}

\* the control flow is past get_primary, which ran and returned
PrimaryReturned ==
    /\ pc \in {"after_primary", "left_computed", "sec_next", "sec_wait",
               "return", "returned", "exited"}
    /\ Truthy(kwargs["primary"])

\* C11: whatever the order in which the invocations of the primary batch
\* complete and are folded, the ResolutionMap of the primary phase is the
\* union of what the providers returned (a function of the set of answers
\* folded so far, not of their order) and AskedSet is the set of the groups.
C11_PrimaryOrderIndependent ==
    /\ pc = "primary_merge" =>
          \E a \in Answers :
              /\ DOMAIN vers = UNION {DOMAIN a[k] : k \in merged}
              /\ \A k \in merged : \A n \in DOMAIN a[k] : vers[n] = a[k][n]
    /\ pc = "after_primary" /\ Truthy(kwargs["primary"]) => vers = pvers
    /\ PrimaryReturned => asked = Groups

\* of two groups that both found a version, the one submitted last was
\* folded first
C11_Witness ==
    /\ pc = "primary_merge"
    /\ DOMAIN inv = {"aur", "github"}
    /\ merged = {"github"}
    /\ \E a \in Answer("github") : DOMAIN a /= {}
    /\ \E r \in ProviderResults("aur", inv["aur"]) : r.ok
    /\ \E a \in Answer("aur") : DOMAIN a /= {}

-----------------------------------------------------------------------------
(* C12 *)

PrimaryLog == {i \in 1..Len(log) : log[i].phase = "primary"}

\* get_primary was entered and built its batch without raising
PrimaryStarted ==
    /\ Truthy(kwargs["primary"])
    /\ pc \notin {"cli", "get_vers"}
    /\ failure \notin {"KeyError:option", "KeyError:source"}

\* every provider of the primary batch has begun
PrimaryBegun == pc /= "primary_wait" \/ \A k \in DOMAIN inv : inv[k].begun

\* C12: in the primary phase every package with a primary field is in the
\* batch of exactly one invocation, that of the provider its field names;
\* a package without the field is in no batch of the phase; each distinct
\* primary name is invoked exactly once and no other provider is; and
\* AskedSet is exactly the set of the primary names the packages declare.
\* (The batch is submitted whole; its providers begin one at a time, each
\* at most once, and all have begun before the batch is joined.)
C12_PrimaryPartition ==
    PrimaryStarted =>
        LET Once(S) == IF PrimaryBegun THEN Cardinality(S) = 1
                       ELSE Cardinality(S) <= 1
        IN  /\ pc = "primary_wait" =>
                  /\ DOMAIN inv = Groups
                  /\ \A k \in DOMAIN inv :
                        SeqToSet(inv[k].batch) =
                            {n \in WithPrimary : c[n]["primary"] = k}
            /\ \A n \in WithPrimary :
                  /\ Once({i \in PrimaryLog : n \in SeqToSet(log[i].batch)})
                  /\ \A i \in PrimaryLog :
                        n \in SeqToSet(log[i].batch) => log[i].source = c[n]["primary"]
            /\ \A n \in Names \ WithPrimary :
                  \A i \in PrimaryLog : n \notin SeqToSet(log[i].batch)
            /\ \A k \in Groups : Once({i \in PrimaryLog : log[i].source = k})
            /\ {log[i].source : i \in PrimaryLog} \subseteq Groups
            /\ PrimaryBegun => {log[i].source : i \in PrimaryLog} = Groups
            /\ PrimaryReturned => asked = {c[n]["primary"] : n \in WithPrimary}

\* two packages of one group were asked in one batch and a third package,
\* without a primary field, was left out
C12_Witness ==
    /\ pc = "after_primary"
    /\ PrimaryStarted
    /\ Names = {"p1", "p2", "p3"}
    /\ WithPrimary = {"p1", "p2"}
    /\ asked = {"github"}
    /\ Len(log) = 1
    /\ log[1].batch = <<"p1", "p2">>

-----------------------------------------------------------------------------
(* C13 *)

\* the first invocation of the secondary cascade
FirstSecondary(i) ==
    /\ i \in 1..Len(log)
    /\ SecondaryLog(i)
    /\ \A j \in 1..(i - 1) : ~SecondaryLog(j)

\* C13: with trust_primary unset and the secondary phase enabled, the
\* LeftSet handed to the secondary cascade is every configured package,
\* those the primary phase resolved included, and the version of a package
\* in the ResolutionMap is, up to the final one, never lower than the
\* version the primary phase recorded for it.
C13_UntrustedPrimaryAsksAll ==
    ( /\ pc \in {"left_computed", "sec_next", "sec_wait", "return", "returned", "exited"}
      /\ ~Truthy(kwargs["trust_primary"])
      /\ Truthy(kwargs["secondary"]) )
    =>  /\ pc = "left_computed" => left = Names
        /\ \A i \in 1..Len(log) : FirstSecondary(i) => log[i].batch = Batch(Names)
        /\ \A p \in DOMAIN pvers :
              /\ p \in DOMAIN vers
              /\ ~VerLT(vers[p], pvers[p])

\* a package the primary phase resolved to 1.9 was asked again and ends
\* with the 1.10 a secondary provider found
C13_Witness ==
    /\ pc = "exited"
    /\ ~Truthy(kwargs["trust_primary"])
    /\ Truthy(kwargs["secondary"])
    /\ "p1" \in DOMAIN pvers
    /\ pvers["p1"] = <<1, 9>>
    /\ vers["p1"] = <<1, 10>>
    /\ \E i \in 1..Len(log) : FirstSecondary(i) /\ "p1" \in SeqToSet(log[i].batch)

-----------------------------------------------------------------------------
(* C14 *)

IsSecondaryEntry(e) == e.phase = "secondary"

\* the providers the secondary cascade has invoked, in order
SecondarySources ==
    LET sl == SelectSeq(log, IsSecondaryEntry) IN
    [i \in 1..Len(sl) |-> sl[i].source]

\* the LeftSet get_vers computed from the result of the primary phase
LeftOfPrimary ==
    IF Truthy(kwargs["trust_primary"]) THEN Names \ DOMAIN pvers ELSE Names

\* C14: with trust_secondary unset, every provider invoked in a secondary
\* pass receives the whole LeftSet the pass started with, whatever earlier
\* providers of the pass answered, and no provider of a pass is skipped:
\* each pass invokes every provider of its list.
C14_UntrustedSecondaryAsksAll ==
    ( /\ pc \in {"sec_next", "sec_wait", "return", "returned", "exited"}
      /\ ~Truthy(kwargs["trust_secondary"]) )
    =>  /\ left = LeftOfPrimary
        /\ \A i \in 1..Len(log) : SecondaryLog(i) => log[i].batch = Batch(LeftOfPrimary)
        /\ pc = "sec_next" =>
              SecondarySources \o todo
                  = IF pass = 1 THEN PassList(1) ELSE PassList(1) \o PassList(2)
        /\ ( /\ pc \in {"return", "returned", "exited"}
             /\ Truthy(kwargs["secondary"])
             /\ left /= {} )
           => SecondarySources = PassList(1) \o PassList(2)

\* both passes ran to their end although a provider of the first pass had
\* already found the package that was left
C14_Witness ==
    /\ pc = "exited"
    /\ ~Truthy(kwargs["trust_secondary"])
    /\ Truthy(kwargs["trust_primary"])
    /\ asked = {"github"}
    /\ SecondarySources = <<"gitlab", "aur", "arch", "github">>
    /\ left = {"p2"}
    /\ "p2" \in DOMAIN vers
    /\ \A i \in 1..Len(log) : SecondaryLog(i) => log[i].batch = <<"p2">>

-----------------------------------------------------------------------------
(* C15 *)

\* a raw string read as the claim reads it: the v prefix removed, then
\* parsed as a release with optional pre-release, post-release and
\* development parts
RefValid(s) == IsVersion(LStripV(s))

RefVersion(s) == base_version(LStripV(s))

RECURSIVE RefVersions(_)
RefVersions(l) ==
    IF l = <<>> THEN <<>>
    ELSE (IF RefValid(Head(l)) THEN <<RefVersion(Head(l))>> ELSE <<>>)
            \o RefVersions(Tail(l))

\* C15: try_parse_versions returns, in ascending order, exactly the
\* versions of the input strings that parse as an ordered release once the
\* v prefix is stripped and the pre-release metadata discarded; every other
\* string is dropped; empty and all-invalid input give the empty sequence;
\* and the last element is the maximum valid version.
C15_ParsesExactlyTheReleases ==
    pc = "parsed" =>
        /\ \A i \in 1..Len(parsed) : \A j \in i..Len(parsed) : ~VerGT(parsed[i], parsed[j])
        /\ parsed = SortVersions(RefVersions(raw))
        /\ (\A i \in 1..Len(raw) : ~RefValid(raw[i])) => parsed = <<>>
        /\ \A i \in 1..Len(raw) :
              RefValid(raw[i]) =>
                  /\ parsed /= <<>>
                  /\ ~VerGT(RefVersion(raw[i]), Last(parsed))

-----------------------------------------------------------------------------
(* C16 *)

\* C16: for every run option the effective value read_config computes is
\* the command-line value when one was given, else the value of the
\* settings block when it has one, else the built-in default (None for an
\* option without default); the configuration never overrides a
\* command-line value.
C16_CliOverConfigOverDefault ==
    pc = "get_vers" =>
        \A k \in OptNames :
            /\ argv[k] /= NoValue => kwargs[k] = argv[k]
            /\ (argv[k] = NoValue /\ k \in DOMAIN jc) => kwargs[k] = jc[k]
            /\ (argv[k] = NoValue /\ k \notin DOMAIN jc /\ k \in DOMAIN defaults)
                  => kwargs[k] = defaults[k]
            /\ (argv[k] = NoValue /\ k \notin DOMAIN jc /\ k \notin DOMAIN defaults)
                  => kwargs[k] = NoValue

\* --no-primary won over primary = true of the file, quiet came from the
\* file, print_names and secondary from the defaults
C16_Witness ==
    /\ pc = "get_vers"
    /\ argv["primary"] = "False"
    /\ jc = [primary |-> "True", quiet |-> "True"]
    /\ kwargs["primary"] = "False"
    /\ argv["quiet"] = NoValue
    /\ kwargs["quiet"] = "True"
    /\ argv["print_names"] = NoValue
    /\ kwargs["print_names"] = "False"
    /\ kwargs["secondary"] = "True"

-----------------------------------------------------------------------------
(* C17 *)

\* one step of the secondary cascade with trust_secondary set
C17_Step ==
    ( /\ pc \in {"left_computed", "sec_next", "sec_wait"}
      /\ Truthy(kwargs["trust_secondary"]) )
    =>  /\ left' \subseteq left
        /\ (pc = "sec_wait" /\ pc' = "sec_next") =>
              left' = {k \in Names : k \notin DOMAIN vers'}
        /\ left = {} => (log' = log /\ inv' = inv)

\* C17: with trust_secondary set, the LeftSet after each merged secondary
\* answer is the set of configured packages still absent from the
\* ResolutionMap, so each LeftSet of the cascade is a subset of the one
\* before; once it is empty no further provider is invoked, in this pass
\* or in pass 2.
C17_TrustedSecondaryShrinks ==
    /\ []((Truthy(kwargs["trust_secondary"]) /\ SecondaryAnswered) => left = Unresolved)
    /\ [][C17_Step]_vars

\* the second provider of pass 1 resolved what was left: the third one and
\* the whole of pass 2 were not invoked
C17_Witness ==
    /\ pc = "exited"
    /\ Truthy(kwargs["trust_secondary"])
    /\ asked = {"github"}
    /\ SecondarySources = <<"gitlab", "aur">>
    /\ left = {}
    /\ Cardinality(Names) = 2
    /\ DOMAIN vers = Names

-----------------------------------------------------------------------------
(* C18 *)

\* the order of the whole cascade: the providers of the list that were not
\* asked in the primary phase, then those that were
CascadeOrder == PassList(1) \o PassList(2)

\* C18: the secondary cascade invokes the providers of the ordered list in
\* the order: those not in AskedSet, in list order, then those in AskedSet,
\* in list order (it may stop before the end); no provider is invoked twice
\* in the secondary phase, and none twice in the primary phase, so a run
\* issues at most one primary and one secondary invocation per provider.
C18_CascadeOrder ==
    /\ Len(SecondarySources) <= Len(CascadeOrder)
    /\ SecondarySources = SubSeq(CascadeOrder, 1, Len(SecondarySources))
    /\ \A i \in 1..Len(log) : \A j \in (i + 1)..Len(log) :
          log[i].phase = log[j].phase => log[i].source /= log[j].source

\* two providers were asked in the primary phase: the cascade asked the two
\* others first and then these two, each once
C18_Witness ==
    /\ pc = "exited"
    /\ asked = {"aur", "github"}
    /\ Cardinality(PrimaryLog) = 2
    /\ SecondarySources = <<"gitlab", "arch", "github", "aur">>

-----------------------------------------------------------------------------
(* C19 *)

\* C19: no provider is invoked with an empty batch of packages, in the
\* primary phase (every group has a package) or in the secondary cascade
\* (a provider is invoked only on a non-empty LeftSet), whatever the
\* options.
C19_NoEmptyBatch ==
    /\ \A i \in 1..Len(log) : log[i].batch /= <<>>
    /\ \A s \in DOMAIN inv : inv[s].batch /= <<>>
    /\ pc = "sec_wait" => (left /= {} /\ \A s \in DOMAIN inv : inv[s].batch = Batch(left))

\* a group of two packages was asked in the primary phase, the cascade was
\* asked for the third package alone and stopped when nothing was left
C19_Witness ==
    /\ pc = "exited"
    /\ Names = {"p1", "p2", "p3"}
    /\ \E i \in PrimaryLog : log[i].batch = <<"p1", "p2">>
    /\ SecondarySources = <<"gitlab", "aur">>
    /\ \A i \in 1..Len(log) : SecondaryLog(i) => log[i].batch = <<"p3">>
    /\ left = {}

-----------------------------------------------------------------------------
(* C20 *)

\* get_vers was left, by its return or by an exception
GetVersLeft ==
    \/ pc \in {"returned", "exited"}
    \/ pc = "crashed" /\ failure \in {"KeyError:source", "provider"}

C20_State ==
    /\ closed = (IF GetVersLeft THEN 1 ELSE 0)
    /\ closed = 1 => (Admitted = {} /\ Waiting = {} /\ fetch_sem = parallelism)
    /\ pc \in {"raise", "sec_next", "return"} => (Admitted = {} /\ Waiting = {})

\* C20: the session is closed exactly once on every path that leaves
\* get_vers, its return and its failures; when it is closed no submitted
\* request is queued or in flight, because every request of a batch has
\* completed before a sibling's failure propagates or an early stop takes
\* effect; and after the close no request is issued.
C20_SessionClosedOnce ==
    /\ [](C20_State)
    /\ [][closed' \in {closed, closed + 1}]_vars
    /\ [][closed = 1 => (inv' = inv /\ log' = log /\ fetch_sem' = fetch_sem)]_vars

\* a request of the primary batch failed: its sibling ran to completion and
\* had its answer when the failure left get_vers and the session was closed
C20_Witness ==
    /\ pc = "crashed"
    /\ failure = "provider"
    /\ closed = 1
    /\ Cardinality(DOMAIN inv) = 2
    /\ \E s \in DOMAIN inv : \E r \in ProviderResults(s, inv[s]) : ~r.ok
    /\ \E s \in DOMAIN inv : \E r \in ProviderResults(s, inv[s]) :
          /\ r.ok
          /\ DOMAIN r.res /= {}

-----------------------------------------------------------------------------
(* C21 *)

\* a request that waits at the gate stays there until it is admitted: it
\* leaves the set of the waiting requests only as an admitted request
C21_Admit ==
    \A f \in Waiting :
        /\ f[1] \in DOMAIN inv'
        /\ f[2] \in DOMAIN inv'[f[1]].fetches
        /\ inv'[f[1]].fetches[f[2]].st \in {"queued", "inflight"}

Terminated == pc \in {"exited", "crashed"}

\* a request that leaves the gate, with a response or with an exception,
\* gives its slot back
C21_Release ==
    \A f \in Admitted :
        (f[1] \in DOMAIN inv' /\ inv'[f[1]].fetches[f[2]].st = "done")
            => fetch_sem' = fetch_sem + 1

\* C21: when every admitted request eventually completes or fails, every
\* request submitted to fetch is eventually admitted by the gate (whenever
\* requests wait, a moment comes when none waits, and a request stops
\* waiting only by being admitted); the slot
\* of a request is released when it fails as when it succeeds, so that all
\* slots are free once a batch is joined and when the run ends; and the run
\* eventually terminates, after at most one primary invocation per
\* registered provider and one secondary invocation per provider of the
\* list.
C21_EveryRequestAdmittedRunEnds ==
    /\ (Waiting /= {}) ~> (Waiting = {})
    /\ [][C21_Admit]_vars
    /\ [][C21_Release]_vars
    /\ []((AllJoined \/ Terminated) => fetch_sem = parallelism)
    /\ [](Len(log) <= Cardinality(sources) + Len(sources_list))
    /\ <>Terminated

\* both slots are taken again after the first request of the batch failed:
\* the request that had to wait was admitted on the slot the failure freed
C21_Witness ==
    /\ Cardinality(FetchKeys) = 3
    /\ Cardinality(Admitted) = parallelism
    /\ fetch_sem = 0
    /\ Waiting = {}
    /\ \E f \in FetchKeys :
          /\ inv[f[1]].fetches[f[2]].st = "done"
          /\ ~inv[f[1]].fetches[f[2]].ok

=============================================================================
